---- MODULE Spec2Model ----
(***************************************************************************)
(* Model of cs282rl/domains/maze.py: the Maze wrapper, the transition      *)
(* function move_avoiding_walls and the GridWorld environment.             *)
(*                                                                         *)
(* Python values are represented as follows.  A position is a pair         *)
(* <<row, col>> of integers (0-based, as in the source).  Python's None is *)
(* the empty tuple; an integer returned where None is also possible (an    *)
(* observation) is the 1-tuple <<n>>.  A dict is a function whose DOMAIN   *)
(* is its key set.  A raised exception is recorded by its class name.      *)
(***************************************************************************)
EXTENDS Integers, Sequences, FiniteSets, TLC

None == <<>>
Some(n) == <<n>>
NoError == "none"

\* Largest magnitude of an action index a caller passes to perform_action.
MaxActionIdx == 5

------------------------------------------------------------------------------
(* Topologies: lists of strings, a string being a sequence of characters.   *)

\* tests/domain_tests.py, the maze of the test suite (4 rows, 3 columns)
TestMaze ==
    << << "#", "#", "#" >>,
       << "#", "o", "#" >>,
       << "#", "*", "#" >>,
       << "#", "#", "#" >> >>

\* two origins, an inner wall, open cells on the border (2 rows, 3 columns)
OpenMaze ==
    << << "o", ".", "*" >>,
       << ".", "#", "o" >> >>

\* a topology without any origin cell
NoOriginMaze ==
    << << ".", "*" >> >>

Topologies == { TestMaze, OpenMaze, NoOriginMaze }

\* maze_actions, maze.py:8-13
maze_actions ==
    [ N |-> << -1, 0 >>, S |-> << 1, 0 >>, E |-> << 0, 1 >>, W |-> << 0, -1 >> ]

\* parse_topology, maze.py:15-16: the 2-D character array, indexed from 0
parse_topology(topology) ==
    [ p \in (0 .. Len(topology) - 1) \X (0 .. Len(topology[1]) - 1)
        |-> topology[p[1] + 1][p[2] + 1] ]

\* ndarray.shape of the parsed array
ArrayShape(topology) == << Len(topology), Len(topology[1]) >>

\* Maze.__init__, maze.py:23-25
MazeInit(topology) ==
    [ topology |-> parse_topology(topology), shape |-> ArrayShape(topology) ]

\* Maze.in_bounds, maze.py:27-29
in_bounds(m, position) ==
    /\ position[1] >= 0 /\ position[2] >= 0
    /\ position[1] < m.shape[1] /\ position[2] < m.shape[2]

\* __getitem__ without the in_bounds test: the array's own indexing, which
\* counts a negative index from the end
getitem_wrapping(m, position) ==
    LET wrap(i, n) == IF i < 0 THEN i + n ELSE i
        p == << wrap(position[1], m.shape[1]), wrap(position[2], m.shape[2]) >>
    IN  IF p \notin DOMAIN m.topology
        THEN [ raised |-> "IndexError", val |-> "" ]
        ELSE [ raised |-> NoError, val |-> m.topology[p] ]

\* Maze.__getitem__, maze.py:31-34
getitem(m, position) ==
    IF ~ in_bounds(m, position)
    THEN [ raised |-> "IndexError", val |-> "" ]
    ELSE [ raised |-> NoError, val |-> m.topology[position] ]

\* row-major scan order of two positions (np.nonzero / np.transpose order)
RowMajorLess(p, q) == p[1] < q[1] \/ (p[1] = q[1] /\ p[2] < q[2])

RECURSIVE SortedSeq(_)
SortedSeq(S) ==
    IF S = {} THEN << >>
    ELSE LET least == CHOOSE p \in S : \A q \in S \ {p} : RowMajorLess(p, q)
         IN  << least >> \o SortedSeq(S \ {least})

\* Maze._tuplify, maze.py:42-43: positions where the boolean array is true
tuplify(m, arr) == SortedSeq({ p \in DOMAIN m.topology : arr[p] })

\* Maze.positions_containing, maze.py:36-37
positions_containing(m, x) ==
    tuplify(m, [ p \in DOMAIN m.topology |-> m.topology[p] = x ])

\* positions_not_containing comparing with == as positions_containing does
positions_not_containing_same(m, x) ==
    tuplify(m, [ p \in DOMAIN m.topology |-> m.topology[p] = x ])

\* Maze.positions_not_containing, maze.py:39-40
positions_not_containing(m, x) ==
    tuplify(m, [ p \in DOMAIN m.topology |-> m.topology[p] # x ])

\* position + action, maze.py:51 (element-wise addition)
VecAdd(position, action) == << position[1] + action[1], position[2] + action[2] >>

\* move_avoiding_walls without the wall test of line 54
move_avoiding_walls_through_walls(m, position, action) ==
    LET new_position == VecAdd(position, action) IN
    IF ~ in_bounds(m, new_position)
    THEN [ raised |-> NoError, pos |-> position, outcome |-> "hit-wall" ]
    ELSE [ raised |-> NoError, pos |-> new_position, outcome |-> "moved" ]

\* move_avoiding_walls without the in_bounds test of line 54
move_avoiding_walls_unchecked(m, position, action) ==
    LET new_position == VecAdd(position, action)
        cell == getitem(m, new_position)
    IN  IF cell.raised # NoError
        THEN [ raised |-> cell.raised, pos |-> None, outcome |-> "" ]
        ELSE IF cell.val = "#"
             THEN [ raised |-> NoError, pos |-> position, outcome |-> "hit-wall" ]
             ELSE [ raised |-> NoError, pos |-> new_position, outcome |-> "moved" ]

\* move_avoiding_walls, maze.py:46-57
move_avoiding_walls(m, position, action) ==
    LET new_position == VecAdd(position, action) IN
    IF ~ in_bounds(m, new_position)
    THEN [ raised |-> NoError, pos |-> position, outcome |-> "hit-wall" ]
    ELSE LET cell == getitem(m, new_position) IN
         IF cell.raised # NoError
         THEN [ raised |-> cell.raised, pos |-> None, outcome |-> "" ]
         ELSE IF cell.val = "#"
              THEN [ raised |-> NoError, pos |-> position, outcome |-> "hit-wall" ]
              ELSE [ raised |-> NoError, pos |-> new_position, outcome |-> "moved" ]

------------------------------------------------------------------------------
(* The random source (numpy RandomState) and Python built-ins.              *)

\* values of action_error_prob, in hundredths
ErrorProbs == { 0, 50, 100 }

\* values random_state.rand() can return, in hundredths (the interval [0, 1))
RandDraws == { 0, 50, 99 }

\* random_state.choice(n): any integer of [0, n); ValueError when n = 0
choice(n) ==
    IF n <= 0 THEN { [ raised |-> "ValueError", val |-> 0 ] }
    ELSE { [ raised |-> NoError, val |-> i ] : i \in 0 .. n - 1 }

\* list indexing that rejects every index outside [0, len)
ListIndex_strict(list, i) ==
    IF i >= 0 /\ i < Len(list) THEN [ raised |-> NoError, val |-> list[i + 1] ]
    ELSE [ raised |-> "IndexError", val |-> None ]

\* list[i] of Python: negative indices count from the end
ListIndex(list, i) ==
    IF i >= 0 /\ i < Len(list) THEN [ raised |-> NoError, val |-> list[i + 1] ]
    ELSE IF i < 0 /\ i >= - Len(list)
         THEN [ raised |-> NoError, val |-> list[i + Len(list) + 1] ]
         ELSE [ raised |-> "IndexError", val |-> None ]

\* dict.get(key, default)
DictGet(d, key, default) == IF key \in DOMAIN d THEN d[key] ELSE default

\* np.ravel_multi_index(multi_index, dims) for two dimensions
ravel_multi_index(multi_index, dims) ==
    IF \/ multi_index[1] < 0 \/ multi_index[1] >= dims[1]
       \/ multi_index[2] < 0 \/ multi_index[2] >= dims[2]
    THEN [ raised |-> "ValueError", val |-> None ]
    ELSE [ raised |-> NoError, val |-> Some(multi_index[1] * dims[2] + multi_index[2]) ]

\* rewards mappings given to the constructor; the first is the default
RewardMaps ==
    { ("*" :> 10),
      ("*" :> 10) @@ ("moved" :> -1) @@ ("hit-wall" :> -5),
      ("." :> 2) @@ ("o" :> 3) @@ ("hit-wall" :> -5) }

------------------------------------------------------------------------------
(* GridWorld                                                                 *)

VARIABLES
    maze,                 \* self.maze
    absorbing_end_state,  \* self.absorbing_end_state
    rewards,              \* self.rewards
    action_error_prob,    \* self.action_error_prob
    actions,              \* self.actions
    num_actions,          \* self.num_actions
    num_states,           \* self.num_states (None while it is not assigned)
    state,                \* self.state: a position, or None when ended
    constructed,          \* TRUE iff __init__ returned an object
    call                  \* the last call made: its arguments and its result

vars == << maze, absorbing_end_state, rewards, action_error_prob, actions,
           num_actions, num_states, state, constructed, call >>

config == << maze, absorbing_end_state, rewards, action_error_prob, actions,
             num_actions, num_states, constructed >>

\* GridWorld.GOAL_MARKER, maze.py:89
GOAL_MARKER == "*"

\* reset choosing among the cells that are not walls
reset_result_any_open(m, st) ==
    LET options == positions_not_containing(m, "#") IN
    { IF k.raised # NoError
      THEN [ raised |-> k.raised, state |-> st ]
      ELSE [ raised |-> NoError, state |-> options[k.val + 1] ]
      : k \in choice(Len(options)) }

\* reset falling back to the first cell when there is no origin
reset_result_default_cell(m, st) ==
    LET options == positions_containing(m, "o") IN
    IF Len(options) = 0
    THEN { [ raised |-> NoError, state |-> << 0, 0 >> ] }
    ELSE { [ raised |-> NoError, state |-> options[k.val + 1] ]
           : k \in choice(Len(options)) }

\* GridWorld.reset, maze.py:111-116: the outcomes of one call
reset_result(m, st) ==
    LET options == positions_containing(m, "o") IN
    { IF k.raised # NoError
      THEN [ raised |-> k.raised, state |-> st ]
      ELSE [ raised |-> NoError, state |-> options[k.val + 1] ]
      : k \in choice(Len(options)) }

\* observe flattening the position against the transposed shape
observe_transposed(st) ==
    IF st = None
    THEN IF absorbing_end_state
         THEN [ raised |-> NoError, val |-> Some(num_states - 1) ]
         ELSE [ raised |-> NoError, val |-> None ]
    ELSE ravel_multi_index(st, << maze.shape[2], maze.shape[1] >>)

\* observe with the absorbing state numbered num_states
observe_past_end(st) ==
    IF st = None
    THEN IF absorbing_end_state
         THEN [ raised |-> NoError, val |-> Some(num_states) ]
         ELSE [ raised |-> NoError, val |-> None ]
    ELSE ravel_multi_index(st, maze.shape)

\* GridWorld.observe, maze.py:118-131
observe(st) ==
    IF st = None
    THEN IF absorbing_end_state
         THEN [ raised |-> NoError, val |-> Some(num_states - 1) ]
         ELSE [ raised |-> NoError, val |-> None ]
    ELSE ravel_multi_index(st, maze.shape)

\* line 103 with the directions in the order "NESW"
ActionList_NESW ==
    << maze_actions.N, maze_actions.E, maze_actions.S, maze_actions.W >>

\* self.actions, maze.py:103: the directions in the order "NSEW"
ActionList ==
    << maze_actions.N, maze_actions.S, maze_actions.E, maze_actions.W >>

\* lines 107-109 without the extra absorbing state
NumStates_cells_only(m, absorbing) == m.shape[1] * m.shape[2]

\* self.num_states, maze.py:107-109
NumStates(m, absorbing) ==
    IF absorbing THEN m.shape[1] * m.shape[2] + 1 ELSE m.shape[1] * m.shape[2]

\* GridWorld.__init__, maze.py:94-109
Init ==
    \E t \in Topologies, absorbing \in BOOLEAN, rw \in RewardMaps, prob \in ErrorProbs :
        /\ maze = MazeInit(t)
        /\ absorbing_end_state = absorbing
        /\ rewards = rw
        /\ action_error_prob = prob
        /\ actions = ActionList
        /\ num_actions = Len(actions)
        /\ \E res \in reset_result(maze, None) :
            /\ state = res.state
            /\ constructed = (res.raised = NoError)
            /\ num_states =
                 IF res.raised # NoError THEN None
                 ELSE NumStates(maze, absorbing)
            /\ call = [ op |-> "__init__", raised |-> res.raised ]

\* GridWorld.reset, maze.py:111-116
reset ==
    /\ constructed
    /\ \E res \in reset_result(maze, state) :
        /\ state' = res.state
        /\ call' = [ op |-> "reset", pre |-> state, raised |-> res.raised ]
    /\ UNCHANGED config

\* observe consuming the position it reports
observe_call_ending ==
    /\ constructed
    /\ call' = [ op |-> "observe", pre |-> state,
                 raised |-> observe(state).raised, obs |-> observe(state).val ]
    /\ state' = None
    /\ UNCHANGED config

\* a call of GridWorld.observe, maze.py:118-131
observe_call ==
    /\ constructed
    /\ call' = [ op |-> "observe", pre |-> state,
                 raised |-> observe(state).raised, obs |-> observe(state).val ]
    /\ UNCHANGED << state, config >>

\* no result of a perform_action call: the fields of the call record
NoStep ==
    [ raised |-> NoError, eff |-> None, new_state |-> None, result |-> "",
      obs |-> None, reward |-> 0 ]

\* lines 136-137 with the no-op rewarded as a blocked move
ended_return_as_blocked(st) ==
    [ NoStep EXCEPT !.raised = observe(st).raised, !.obs = observe(st).val,
                    !.reward = DictGet(rewards, "hit-wall", 0) ]
      @@ [ state |-> st ]

\* maze.py:136-137: in the end state nothing does anything
ended_return(st) ==
    [ NoStep EXCEPT !.raised = observe(st).raised, !.obs = observe(st).val ]
      @@ [ state |-> st ]

\* lines 139-140 drawing unconditionally and comparing with <=
effective_index_le(action_idx, r, c) ==
    IF r <= action_error_prob THEN c ELSE action_idx

\* maze.py:139-140: the index used after the possible random replacement
effective_index(action_idx, r, c) ==
    IF action_error_prob # 0 /\ r < action_error_prob THEN c ELSE action_idx

\* line 145 without the event reward
step_reward_content_only(label, result) == DictGet(rewards, label, 0)

\* maze.py:145: content reward plus event reward
step_reward(label, result) ==
    DictGet(rewards, label, 0) + DictGet(rewards, result, 0)

\* lines 146-148 without the end of the episode
goal_check_never(label, new_state) == new_state

\* maze.py:146-148: reaching the goal ends the episode
goal_check(label, new_state) ==
    IF label = GOAL_MARKER THEN None ELSE new_state

\* GridWorld.perform_action, maze.py:133-149, from self.state = st, when
\* rand() returns r and choice(num_actions) returns c: the state assigned and
\* the values returned.  eff is the index used at line 141, new_state and
\* result are the locals of line 142.
perform_action_result(st, action_idx, r, c) ==
    IF st = None THEN ended_return(st)
    ELSE
    LET idx == effective_index(action_idx, r, c)
        action == ListIndex(actions, idx)
    IN
    IF action.raised # NoError
    THEN [ NoStep EXCEPT !.raised = action.raised, !.eff = Some(idx) ]
           @@ [ state |-> st ]
    ELSE
    LET mv == move_avoiding_walls(maze, st, action.val) IN
    IF mv.raised # NoError
    THEN [ NoStep EXCEPT !.raised = mv.raised, !.eff = Some(idx) ] @@ [ state |-> st ]
    ELSE
    LET new_state == mv.pos
        result == mv.outcome
        cell == getitem(maze, new_state)
    IN
    IF cell.raised # NoError
    THEN [ NoStep EXCEPT !.raised = cell.raised, !.eff = Some(idx),
                         !.new_state = new_state, !.result = result ]
           @@ [ state |-> new_state ]
    ELSE
    LET reward == step_reward(cell.val, result)
        final == goal_check(cell.val, new_state)
        o == observe(final)
    IN  [ raised |-> o.raised, eff |-> Some(idx), new_state |-> new_state,
          result |-> result, obs |-> o.val, reward |-> reward, state |-> final ]

\* maze.py:139: rand() is called only from a position and when
\* action_error_prob is nonzero
rand_calls(st) ==
    IF st # None /\ action_error_prob # 0 THEN RandDraws ELSE { 0 }

\* line 140 drawing the replacement among all actions but the last
choice_calls_short(st, r) ==
    IF st # None /\ action_error_prob # 0 /\ r < action_error_prob
    THEN { k.val : k \in choice(num_actions - 1) } ELSE { 0 }

\* maze.py:140: choice(num_actions) is called only when rand() returned less
\* than action_error_prob
choice_calls(st, r) ==
    IF st # None /\ action_error_prob # 0 /\ r < action_error_prob
    THEN { k.val : k \in choice(num_actions) } ELSE { 0 }

\* a call of GridWorld.perform_action, maze.py:133-149
perform_action(action_idx) ==
    /\ constructed
    /\ \E r \in rand_calls(state) : \E c \in choice_calls(state, r) :
        LET res == perform_action_result(state, action_idx, r, c) IN
        /\ state' = res.state
        /\ call' = [ op |-> "perform_action", arg |-> action_idx, pre |-> state,
                     raised |-> res.raised, eff |-> res.eff,
                     new_state |-> res.new_state, result |-> res.result,
                     obs |-> res.obs, reward |-> res.reward ]
    /\ UNCHANGED config

\* a call of move_avoiding_walls, maze.py:46-57, on an in-bounds position
move_call(position, action) ==
    LET mv == move_avoiding_walls(maze, position, action) IN
    /\ call' = [ op |-> "move_avoiding_walls", position |-> position,
                 action |-> action, raised |-> mv.raised, pos |-> mv.pos,
                 outcome |-> mv.outcome ]
    /\ UNCHANGED << state, config >>

Next ==
    \/ reset
    \/ observe_call
    \/ \E action_idx \in - MaxActionIdx .. MaxActionIdx : perform_action(action_idx)
    \/ \E position \in DOMAIN maze.topology, d \in DOMAIN maze_actions :
          move_call(position, maze_actions[d])

Spec == Init /\ [][Next]_vars

------------------------------------------------------------------------------
(* Calls of the Maze wrapper on its own                                      *)

\* how far outside the grid the looked-up positions reach
Margin == 1

\* the positions given to Maze.__getitem__
LookupPositions ==
    (- Margin .. maze.shape[1] - 1 + Margin)
        \X (- Margin .. maze.shape[2] - 1 + Margin)

\* a call of Maze.__getitem__, maze.py:31-34
getitem_call(position) ==
    LET cell == getitem(maze, position) IN
    /\ call' = [ op |-> "__getitem__", position |-> position,
                 raised |-> cell.raised, val |-> cell.val ]
    /\ UNCHANGED << state, config >>

\* the labels searched for; no cell is labelled "x"
Labels == { "#", "o", "*", ".", "x" }

\* a call of Maze.positions_containing followed by one of
\* Maze.positions_not_containing, maze.py:36-43, as in test_maze_wrapper
positions_call(x) ==
    /\ call' = [ op |-> "positions", x |-> x, raised |-> NoError,
                 containing |-> positions_containing(maze, x),
                 not_containing |-> positions_not_containing(maze, x) ]
    /\ UNCHANGED << state, config >>

NextMaze ==
    \/ \E position \in LookupPositions : getitem_call(position)
    \/ \E x \in Labels : positions_call(x)

SpecMaze == Init /\ [][NextMaze]_vars

------------------------------------------------------------------------------
(* Properties                                                                *)

\* C1: for every in-bounds position p and every unit displacement a,
\* move_avoiding_walls returns (p, 'hit-wall') when p+a is outside the grid
\* or is a '#' cell, and (p+a, 'moved') otherwise; it never raises.
C1_MoveContract ==
    call.op = "move_avoiding_walls" =>
        LET p == call.position
            a == call.action
            q == << p[1] + a[1], p[2] + a[2] >>
            blocked == q \notin DOMAIN maze.topology \/ maze.topology[q] = "#"
        IN  /\ call.raised = NoError
            /\ blocked => call.pos = p /\ call.outcome = "hit-wall"
            /\ ~ blocked => call.pos = q /\ call.outcome = "moved"

\* a move whose candidate has a negative coordinate was answered 'hit-wall'
C1_Witness ==
    /\ call.op = "move_avoiding_walls"
    /\ \/ call.position[1] + call.action[1] < 0
       \/ call.position[2] + call.action[2] < 0
    /\ call.raised = NoError
    /\ call.pos = call.position
    /\ call.outcome = "hit-wall"

\* C2: a perform_action call made while not ended returns the reward
\* rewards.get(label of the post-move cell, 0) + rewards.get(outcome, 0);
\* a blocked move is rewarded for the cell the agent stays on plus
\* 'hit-wall', the goal-reaching step with '*' plus 'moved'.
C2_RewardAdditive ==
    (call.op = "perform_action" /\ call.pre # None /\ call.raised = NoError) =>
        LET get(k) == IF k \in DOMAIN rewards THEN rewards[k] ELSE 0
            label == maze.topology[call.new_state]
        IN  /\ call.result \in { "moved", "hit-wall" }
            /\ call.reward = get(label) + get(call.result)
            /\ call.result = "hit-wall" =>
                 /\ call.new_state = call.pre
                 /\ call.reward = get(maze.topology[call.pre]) + get("hit-wall")
            /\ call.result = "moved" => call.new_state # call.pre
            /\ label = "*" => call.reward = get("*") + get("moved")
            /\ state = IF label = "*" THEN None ELSE call.new_state

\* a blocked move was rewarded with a cell entry plus the 'hit-wall' entry
C2_Witness ==
    /\ call.op = "perform_action" /\ call.pre # None /\ call.raised = NoError
    /\ call.result = "hit-wall"
    /\ "hit-wall" \in DOMAIN rewards
    /\ maze.topology[call.pre] \in DOMAIN rewards
    /\ call.reward = rewards[maze.topology[call.pre]] + rewards["hit-wall"]

\* C3: with absorbing_end_state, a perform_action call made once the episode
\* has ended returns (num_states - 1, 0) and leaves the environment ended,
\* for every action index of [0, num_actions), rewards and action_error_prob.
C3_AbsorbingSink ==
    ( /\ constructed /\ absorbing_end_state
      /\ call.op = "perform_action" /\ call.pre = None
      /\ call.arg \in 0 .. num_actions - 1 ) =>
        /\ call.raised = NoError
        /\ call.obs = Some(num_states - 1)
        /\ call.reward = 0
        /\ state = None

\* an ended absorbing environment with action noise and an event reward
\* answered a perform_action call
C3_Witness ==
    /\ constructed /\ absorbing_end_state
    /\ call.op = "perform_action" /\ call.pre = None
    /\ call.arg \in 0 .. num_actions - 1
    /\ action_error_prob # 0 /\ "moved" \in DOMAIN rewards
    /\ call.obs = Some(num_states - 1) /\ state = None

\* C4: without absorbing_end_state, once the episode has ended observe()
\* returns None and every perform_action call with an index of
\* [0, num_actions) returns (None, 0) and leaves the environment ended.
C4_NonAbsorbingEnd ==
    ( constructed /\ ~ absorbing_end_state /\ call.raised = NoError ) =>
        /\ (call.op = "observe" /\ call.pre = None) =>
              call.obs = None /\ state = None
        /\ ( /\ call.op = "perform_action" /\ call.pre = None
             /\ call.arg \in 0 .. num_actions - 1 ) =>
              call.obs = None /\ call.reward = 0 /\ state = None

\* an ended non-absorbing environment whose rewards have a 'hit-wall' entry
\* answered a perform_action call
C4_Witness ==
    /\ constructed /\ ~ absorbing_end_state
    /\ call.op = "perform_action" /\ call.pre = None
    /\ call.arg \in 0 .. num_actions - 1
    /\ "hit-wall" \in DOMAIN rewards
    /\ call.obs = None /\ call.reward = 0 /\ state = None

\* C5: a coordinate current position never denotes a goal cell: the step
\* whose post-move cell is the goal ends the episode in the same call, and
\* that call returns the goal reward.
C5_NeverOnGoal ==
    constructed =>
        /\ state # None => maze.topology[state] # "*"
        /\ ( /\ call.op = "perform_action" /\ call.pre # None
             /\ call.raised = NoError
             /\ maze.topology[call.new_state] = "*" ) =>
              /\ state = None
              /\ call.reward =
                   (IF "*" \in DOMAIN rewards THEN rewards["*"] ELSE 0)
                   + (IF "moved" \in DOMAIN rewards THEN rewards["moved"] ELSE 0)

\* a step onto the goal ended the episode and paid the goal reward
C5_Witness ==
    /\ constructed /\ state = None
    /\ call.op = "perform_action" /\ call.pre # None /\ call.raised = NoError
    /\ maze.topology[call.new_state] = "*"
    /\ "*" \in DOMAIN rewards /\ "moved" \in DOMAIN rewards
    /\ call.reward = rewards["*"] + rewards["moved"]

\* C6: num_states is rows*cols, plus one iff absorbing, and every
\* observation that is not the non-absorbing None is an integer of
\* [0, num_states), from construction on.
C6_ObservationRange ==
    constructed =>
        LET cells == Cardinality(DOMAIN maze.topology)
            inRange(o) == o = None \/ (o[1] >= 0 /\ o[1] < num_states)
        IN  /\ num_states = IF absorbing_end_state THEN cells + 1 ELSE cells
            /\ observe(state).raised = NoError
            /\ inRange(observe(state).val)
            /\ observe(state).val = None => (state = None /\ ~ absorbing_end_state)
            /\ call.op \in { "observe", "perform_action" } =>
                 (call.raised = NoError => inRange(call.obs))

\* an absorbing environment, ended, observed as an integer below num_states
C6_Witness ==
    /\ constructed /\ absorbing_end_state /\ state = None
    /\ call.op = "observe" /\ call.raised = NoError
    /\ call.obs # None /\ call.obs[1] >= 0 /\ call.obs[1] < num_states
    /\ num_states = Cardinality(DOMAIN maze.topology) + 1

\* C7: whenever the current position is a coordinate (row, col), observe()
\* returns row * num_cols + col, absorbing or not.
C7_RowMajorIndex ==
    constructed =>
        LET num_cols == Cardinality({ p \in DOMAIN maze.topology : p[1] = 0 })
            flat(p) == Some(p[1] * num_cols + p[2])
        IN  /\ state # None => observe(state).val = flat(state)
            /\ (call.op = "observe" /\ call.pre # None) =>
                 call.raised = NoError /\ call.obs = flat(call.pre)
            /\ ( /\ call.op = "perform_action" /\ call.raised = NoError
                 /\ state # None ) => call.obs = flat(state)

\* a position off the diagonal of a non-square maze was observed
C7_Witness ==
    /\ constructed /\ call.op = "observe" /\ call.pre # None
    /\ call.pre[1] # call.pre[2]
    /\ maze.shape[1] # maze.shape[2]
    /\ call.obs = Some(call.pre[1] * maze.shape[2] + call.pre[2])

\* C8: the action indices are 0 = North (-1,0), 1 = South (1,0),
\* 2 = East (0,1), 3 = West (0,-1), with exactly one South; in the test maze
\* with default rewards and no action error, observe() after reset is 4,
\* index 1 returns reward 10 and ends the episode, indices 0, 2, 3 return
\* reward 0 and leave observe() at 4.
C8_ActionOrder ==
    ( /\ constructed /\ maze = MazeInit(TestMaze)
      /\ rewards = ("*" :> 10) /\ action_error_prob = 0 ) =>
        /\ actions = << << -1, 0 >>, << 1, 0 >>, << 0, 1 >>, << 0, -1 >> >>
        /\ num_actions = 4
        /\ Cardinality({ i \in 1 .. Len(actions) : actions[i] = << 1, 0 >> }) = 1
        /\ call.op \in { "__init__", "reset" } =>
             state = << 1, 1 >> /\ observe(state).val = Some(4)
        /\ (call.op = "perform_action" /\ call.pre = << 1, 1 >> /\ call.arg = 1) =>
             /\ call.raised = NoError /\ call.reward = 10 /\ state = None
        /\ ( /\ call.op = "perform_action" /\ call.pre = << 1, 1 >>
             /\ call.arg \in { 0, 2, 3 } ) =>
             /\ call.raised = NoError /\ call.reward = 0
             /\ call.obs = Some(4) /\ observe(state).val = Some(4)

\* in the test maze action index 1 reached the goal for reward 10
C8_Witness ==
    /\ constructed /\ maze = MazeInit(TestMaze)
    /\ rewards = ("*" :> 10) /\ action_error_prob = 0
    /\ call.op = "perform_action" /\ call.pre = << 1, 1 >> /\ call.arg = 1
    /\ call.reward = 10 /\ state = None

\* C9 as stated: in the 4x3 test maze with absorbing_end_state, num_states
\* is 12 and observe() after moving South onto the goal is 11.
C9_Original ==
    (constructed /\ maze = MazeInit(TestMaze) /\ absorbing_end_state) =>
        /\ num_states = 12
        /\ ( /\ call.op = "perform_action" /\ call.pre = << 1, 1 >>
             /\ call.eff = Some(1) /\ call.raised = NoError ) =>
              call.obs = Some(11)

\* C9, amended: in the 4x3 test maze with absorbing_end_state, num_states is
\* 13 (12 cells plus the absorbing state) and, after moving South from the
\* origin onto the goal, the episode is ended and observe() returns
\* num_states - 1 = 12.
C9_AbsorbingIndex ==
    (constructed /\ maze = MazeInit(TestMaze) /\ absorbing_end_state) =>
        /\ num_states = 13
        /\ state = None => observe(state).val = Some(12)
        /\ ( /\ call.op = "perform_action" /\ call.pre = << 1, 1 >>
             /\ call.eff = Some(1) /\ call.raised = NoError ) =>
              /\ state = None
              /\ call.obs = Some(12)
              /\ call.obs = Some(num_states - 1)
        /\ ( /\ call.op = "perform_action" /\ call.pre = << 1, 1 >>
             /\ call.arg = 1 /\ action_error_prob = 0 ) => call.eff = Some(1)

\* the absorbing test maze after the move South onto the goal
C9_Witness ==
    /\ constructed /\ maze = MazeInit(TestMaze) /\ absorbing_end_state
    /\ call.op = "perform_action" /\ call.pre = << 1, 1 >> /\ call.arg = 1
    /\ action_error_prob = 0 /\ state = None
    /\ call.obs = Some(12) /\ num_states = 13

\* C10 as stated: a perform_action call with an action index outside
\* [0, num_actions) is rejected with an error and leaves the position
\* unchanged.
C10_Original ==
    ( /\ constructed /\ call.op = "perform_action"
      /\ call.arg \notin 0 .. num_actions - 1 ) =>
        call.raised # NoError /\ state = call.pre

\* C10, amended: from a coordinate position and when action noise does not
\* replace the index, an index >= num_actions or < -num_actions raises
\* IndexError and leaves the position unchanged, while an index of
\* [-num_actions, -1] is not rejected and executes the action at
\* index + num_actions; once the episode has ended any index returns
\* (observe(), 0) without an error; an index replaced by action noise
\* executes a valid action without an error.
C10_OutOfRangeIndex ==
    ( /\ constructed /\ call.op = "perform_action"
      /\ call.arg \notin 0 .. num_actions - 1 ) =>
        /\ call.raised \in { NoError, "IndexError" }
        /\ call.raised # NoError => state = call.pre
        /\ call.pre = None =>
             call.raised = NoError /\ state = None /\ call.reward = 0
        /\ (call.pre # None /\ call.eff = Some(call.arg)) =>
             IF call.arg >= num_actions \/ call.arg < - num_actions
             THEN call.raised = "IndexError" /\ state = call.pre
             ELSE LET a == actions[call.arg + num_actions + 1]
                      q == << call.pre[1] + a[1], call.pre[2] + a[2] >>
                      blocked == \/ q \notin DOMAIN maze.topology
                                 \/ maze.topology[q] = "#"
                  IN  /\ call.raised = NoError
                      /\ call.new_state = IF blocked THEN call.pre ELSE q
        /\ (call.pre # None /\ call.eff # Some(call.arg)) =>
             /\ action_error_prob # 0
             /\ call.eff # None /\ call.eff[1] \in 0 .. num_actions - 1
             /\ call.raised = NoError

\* an index >= num_actions was rejected from a coordinate position
C10_Witness ==
    /\ constructed /\ call.op = "perform_action"
    /\ call.arg >= num_actions /\ call.pre # None
    /\ call.raised = "IndexError" /\ state = call.pre

\* C11: with action_error_prob = 0 perform_action is deterministic: from the
\* same position and with the same action index, the observation, the
\* reward and the final position are the same whatever the random source
\* would return and whatever calls were made before.
C11_Deterministic ==
    (constructed /\ action_error_prob = 0) =>
        LET outcome(res) == << res.raised, res.obs, res.reward, res.state >>
            base(st, a) == outcome(perform_action_result(st, a, 0, 0))
        IN  /\ \A a \in 0 .. num_actions - 1 :
                 \A r \in RandDraws, c \in 0 .. num_actions - 1 :
                     outcome(perform_action_result(state, a, r, c)) = base(state, a)
            /\ (call.op = "perform_action" /\ call.arg \in 0 .. num_actions - 1) =>
                 \A r \in RandDraws, c \in 0 .. num_actions - 1 :
                     << call.raised, call.obs, call.reward, state >>
                       = outcome(perform_action_result(call.pre, call.arg, r, c))

\* without action error, a call after earlier calls moved the agent
C11_Witness ==
    /\ constructed /\ action_error_prob = 0
    /\ call.op = "perform_action" /\ call.arg = 3
    /\ call.pre # None /\ call.result = "moved" /\ state # None
    /\ call.eff = Some(3)

\* C12: Maze.__getitem__ raises IndexError for every position with a
\* coordinate below 0 or not below the shape (a negative coordinate is never
\* wrapped or clamped), and returns the label of the cell for every
\* in-bounds position.
C12_Lookup ==
    call.op = "__getitem__" =>
        LET p == call.position
            rows == Cardinality({ q \in DOMAIN maze.topology : q[2] = 0 })
            cols == Cardinality({ q \in DOMAIN maze.topology : q[1] = 0 })
            outside == p[1] < 0 \/ p[2] < 0 \/ p[1] >= rows \/ p[2] >= cols
        IN  /\ outside => call.raised = "IndexError"
            /\ ~ outside => call.raised = NoError /\ call.val = maze.topology[p]
            /\ (maze = MazeInit(TestMaze) /\ p = << 0, 0 >>) => call.val = "#"
            /\ (maze = MazeInit(TestMaze) /\ p = << 2, 1 >>) => call.val = "*"
            /\ (maze = MazeInit(OpenMaze) /\ p = << 1, 2 >>) => call.val = "o"

\* the lookup of a position with a negative row raised IndexError
C12_Witness ==
    /\ call.op = "__getitem__"
    /\ call.position[1] = -1 /\ call.position[2] = 0
    /\ call.raised = "IndexError"

\* C13: positions_containing(x) lists exactly the positions whose cell
\* equals x and positions_not_containing(x) exactly the others; the two
\* lists are disjoint, together hold every cell once, and each is in
\* row-major scan order.
C13_Positions ==
    call.op = "positions" =>
        LET with == call.containing
            without == call.not_containing
            elems(seq) == { seq[i] : i \in 1 .. Len(seq) }
            cols == Cardinality({ q \in DOMAIN maze.topology : q[1] = 0 })
            flat(q) == q[1] * cols + q[2]
            scan(seq) == \A i \in 1 .. Len(seq) - 1 : flat(seq[i]) < flat(seq[i + 1])
        IN  /\ elems(with) = { q \in DOMAIN maze.topology : maze.topology[q] = call.x }
            /\ elems(without) = { q \in DOMAIN maze.topology : maze.topology[q] # call.x }
            /\ elems(with) \cap elems(without) = {}
            /\ elems(with) \cup elems(without) = DOMAIN maze.topology
            /\ Len(with) + Len(without) = Cardinality(DOMAIN maze.topology)
            /\ scan(with) /\ scan(without)
            /\ (maze = MazeInit(TestMaze) /\ call.x = "*") => with = << << 2, 1 >> >>
            /\ (maze = MazeInit(TestMaze) /\ call.x = "#") =>
                 without = << << 1, 1 >>, << 2, 1 >> >>

\* both lists of a label held by two cells of different rows were computed
C13_Witness ==
    /\ call.op = "positions" /\ call.x = "o"
    /\ call.containing = << << 0, 0 >>, << 1, 2 >> >>
    /\ call.not_containing = << << 0, 1 >>, << 0, 2 >>, << 1, 0 >>, << 1, 1 >> >>

\* C14: reset, from a coordinate or from the ended state and also when run
\* by the constructor, sets the current position to a cell labelled 'o';
\* every 'o' cell is a possible result and no other cell is, so a freshly
\* constructed or reset environment is never ended.
C14_ResetToOrigin ==
    constructed =>
        LET origins == { q \in DOMAIN maze.topology : maze.topology[q] = "o" }
        IN  /\ call.op \in { "__init__", "reset" } =>
                 /\ call.raised = NoError
                 /\ state # None
                 /\ state \in origins
            /\ { res.state : res \in reset_result(maze, state) } = origins
            /\ \A res \in reset_result(maze, state) : res.raised = NoError

\* a reset from the ended state put the agent on the second origin
C14_Witness ==
    /\ constructed /\ call.op = "reset" /\ call.pre = None
    /\ state = << 1, 2 >> /\ maze.topology[state] = "o"
    /\ Cardinality({ q \in DOMAIN maze.topology : maze.topology[q] = "o" }) = 2

\* C15: for a topology without an 'o' cell, reset, and so the construction
\* of the environment, fails with an error and never sets the current
\* position to some other cell.
C15_NoOriginFails ==
    ({ q \in DOMAIN maze.topology : maze.topology[q] = "o" } = {}) =>
        /\ ~ constructed
        /\ state = None
        /\ call.op = "__init__" => call.raised = "ValueError"
        /\ \A res \in reset_result(maze, state) :
              res.raised = "ValueError" /\ res.state = state

\* the construction over the topology without an origin raised
C15_Witness ==
    /\ maze = MazeInit(NoOriginMaze)
    /\ call.op = "__init__" /\ call.raised = "ValueError"
    /\ ~ constructed /\ state = None

\* C16: with action_error_prob > 0, a perform_action(a) call from a
\* coordinate p returns the result of moving from p by the action of some
\* index b of [0, num_actions); every such b, b = a included, is possible
\* when 0 < action_error_prob < 1; a replacement index is never outside
\* [0, num_actions); the choice is the same in every state, whatever calls
\* were made before.
C16_ActionNoise ==
    (constructed /\ action_error_prob # 0) =>
        LET indices == 0 .. num_actions - 1
            executed(st, a) ==
                UNION { { effective_index(a, r, c) : c \in choice_calls(st, r) }
                          : r \in rand_calls(st) }
        IN  /\ ( /\ call.op = "perform_action" /\ call.pre # None
                 /\ call.arg \in indices ) =>
                 /\ call.raised = NoError
                 /\ call.eff # None /\ call.eff[1] \in indices
                 /\ LET v == actions[call.eff[1] + 1]
                        q == << call.pre[1] + v[1], call.pre[2] + v[2] >>
                        blocked == \/ q \notin DOMAIN maze.topology
                                   \/ maze.topology[q] = "#"
                    IN  /\ call.new_state = IF blocked THEN call.pre ELSE q
                        /\ call.result = IF blocked THEN "hit-wall" ELSE "moved"
            /\ state # None =>
                 \A a \in indices :
                    /\ executed(state, a) \subseteq indices
                    /\ action_error_prob < 100 => executed(state, a) = indices
            /\ state # None =>
                 \A a \in - MaxActionIdx .. MaxActionIdx :
                    executed(state, a) \ { a } \subseteq indices

\* under action noise the index 1 was replaced by the index 3
C16_Witness ==
    /\ constructed /\ action_error_prob = 50
    /\ call.op = "perform_action" /\ call.pre # None
    /\ call.arg = 1 /\ call.eff = Some(3)
    /\ call.raised = NoError

\* C17: observe() changes nothing: it leaves the current position unchanged
\* and returns the same value when called again; and no call changes the
\* topology, the rewards mapping, num_states or the action list: the
\* current position is all that perform_action and reset modify.
C17_Frame ==
    [][ /\ maze' = maze /\ rewards' = rewards /\ num_states' = num_states
        /\ actions' = actions /\ num_actions' = num_actions
        /\ absorbing_end_state' = absorbing_end_state
        /\ action_error_prob' = action_error_prob
        /\ call'.op \notin { "reset", "perform_action" } => state' = state
        /\ call'.op = "observe" => call'.pre = state
        /\ (call.op = "observe" /\ call'.op = "observe") =>
              /\ call'.obs = call.obs
              /\ call'.raised = call.raised
              /\ call'.pre = call.pre
      ]_vars

\* observe was called in the ended state and left it ended
C17_Witness ==
    /\ constructed /\ call.op = "observe"
    /\ call.pre = None /\ state = None
    /\ call.raised = NoError

\* C18: in every reachable state, with any action_error_prob, a coordinate
\* current position is inside the grid and is not a wall cell: the agent
\* starts on an 'o' cell and no action moves it onto a wall or off the grid.
C18_OnOpenCell ==
    (constructed /\ state # None) =>
        LET rows == Cardinality({ q \in DOMAIN maze.topology : q[2] = 0 })
            cols == Cardinality({ q \in DOMAIN maze.topology : q[1] = 0 })
        IN  /\ state[1] >= 0 /\ state[1] < rows
            /\ state[2] >= 0 /\ state[2] < cols
            /\ maze.topology[state] # "#"
            /\ call.op = "perform_action" => call.raised \in { NoError, "IndexError" }

\* under action noise a move off the grid left the agent on its border cell
C18_Witness ==
    /\ constructed /\ action_error_prob # 0
    /\ call.op = "perform_action" /\ call.pre # None /\ call.raised = NoError
    /\ call.result = "hit-wall" /\ state = call.pre
    /\ call.pre[1] + actions[call.eff[1] + 1][1] < 0

\* C19: with absorbing_end_state the terminal observation is not that of a
\* cell: observe() is num_states - 1 exactly when the episode is ended, and
\* the observation of a coordinate position is below num_states - 1.
C19_TerminalIndexDistinct ==
    (constructed /\ absorbing_end_state) =>
        /\ observe(state).raised = NoError
        /\ observe(state).val = Some(num_states - 1) <=> state = None
        /\ state # None => observe(state).val[1] < num_states - 1
        /\ (call.op \in { "observe", "perform_action" } /\ call.raised = NoError) =>
              /\ call.obs # None
              /\ call.obs = Some(num_states - 1) <=> state = None
              /\ state # None => call.obs[1] < num_states - 1

\* the last cell of an absorbing maze observed, one below the terminal index
C19_Witness ==
    /\ constructed /\ absorbing_end_state /\ call.op = "observe"
    /\ state = << maze.shape[1] - 1, maze.shape[2] - 1 >>
    /\ call.obs = Some(num_states - 2)

====
